---- MODULE Spec2Model ----
(***************************************************************************)
(* Model of src/Server.py: the DeviceStateManager (serial link, state      *)
(* cache, failure counter, reconnection loop) with its three kinds of      *)
(* threads: the polling thread (monitor_device_status), the API callers    *)
(* (update_status(notify_clients=False) as get_status calls it, and        *)
(* set_switch_state as set_switch calls it) and the main thread            *)
(* (stop_monitoring, join).                                                *)
(*                                                                         *)
(* The serial device is the environment: every open, write and read draws  *)
(* its outcome nondeterministically.  Any amount of time can pass between  *)
(* two steps, so time.time() - last_failure_time is drawn where the code   *)
(* reads it (line 142) and every timed wait can end.                       *)
(***************************************************************************)
EXTENDS Integers, Sequences, FiniteSets, TLC

VARIABLES
    current_status,    \* self.current_status: four 0/1 values
    device_connected,  \* self.device_connected
    ser,               \* self.ser: a handle, or None
    open_handles,      \* the handles whose is_open is True
    stop_event,        \* self.stop_event.is_set()
    lock,              \* self.lock: the thread holding it, or None
    failure_count,     \* self.failure_count
    last_failure_time, \* self.last_failure_time: None, or Stamp (a time.time() value)
    consecutive_failures, \* history: failures recorded since the last decoded response
    elapsed_read,      \* history: time.time() - last_failure_time as line 142 read it
    pc,                \* per thread: position in the code
    call,              \* per thread: the outermost decorated method running
    req,               \* per thread: the switch_states argument
    result,            \* per thread: what the last call returned or raised
    wrote,             \* per thread: commands written to the device in this call
    link_io,           \* per thread, history: what the link did last in this call
    retry_interval,    \* attempt_reconnection's local retry_interval
    new_connection,    \* attempt_reconnection's local new_connection
    main_pc,           \* the main thread: run, joining, joined
    out,               \* the socketio.emit of the last step, or NoEvent
    last_decoded,      \* history: status decoded by the last successful refresh
    last_opened,       \* history: handle returned by the last successful open
    n_failed,          \* history: failed opens in this attempt_reconnection call
    last_wait          \* history: duration of the last backoff wait

vars == <<current_status, device_connected, ser, open_handles, stop_event, lock,
          failure_count, last_failure_time, consecutive_failures, elapsed_read, pc, call, req, result,
          wrote, link_io, retry_interval, new_connection, main_pc, out, last_decoded,
          last_opened, n_failed, last_wait>>

----------------------------------------------------------------------------
(* Bounds of the model *)

MaxReqKeys == 1        \* entries of a switch_states request
MaxResponse == 1       \* largest integer the device answers a query with
MaxFailureCount == 5   \* failures recorded before the environment stops failing
MaxRetries == 5        \* failed opens per reconnection episode
MaxOverrun == 1        \* seconds past failure_reset_interval the clock is read at

(* Configuration, DeviceStateManager.__init__ *)

\* read from config.json (lines 78-82); max_retry_interval is configured as 60,
\* the code's default when the key is absent is 300
min_retry_interval == 10
max_retry_interval == 60
failure_reset_interval == 600
max_failure_threshold == 5

None == "None"
NoTime == -1           \* no elapsed time: self.last_failure_time is None
Stamp == "stamp"
Poll == "poll"
Api == {"api1"}
Threads == {Poll} \cup Api
Handles == {"h1", "h2"}

----------------------------------------------------------------------------
(* Switch table and status encoding *)

SwitchNames == <<"Alpha", "Bravo", "Charlie", "Delta">>

switch_map == [Alpha |-> 2, Bravo |-> 3, Charlie |-> 4, Delta |-> 5]

ValidNames == {SwitchNames[i] : i \in 1..Len(SwitchNames)}

RequestNames == ValidNames \cup {"Echo"}

\* list(self.switch_map.keys()).index(switch_name), 1-based
current_index(name) == CHOOSE i \in 1..Len(SwitchNames) : SwitchNames[i] = name

\* (response & (1 << i)) > 0, as int
Bit(response, i) == (response \div (2 ^ i)) % 2

decode_status(response) ==
    <<Bit(response, 0), Bit(response, 1), Bit(response, 2), Bit(response, 3)>>

get_status_dict(status) ==
    [name \in ValidNames |-> status[current_index(name)]]

\* the statuses the device can report within the bound
AllStatus == {decode_status(n) : n \in 0..MaxResponse}

\* a request: the (name, state) items of the dict, in insertion order
RECURSIVE SeqsUpTo(_, _)
SeqsUpTo(S, n) ==
    IF n = 0 THEN {<<>>}
    ELSE LET shorter == SeqsUpTo(S, n - 1)
         IN  shorter \cup {Append(s, x) : s \in {q \in shorter : Len(q) = n - 1}, x \in S}

Requests ==
    {s \in SeqsUpTo(RequestNames \X {0, 1}, MaxReqKeys) :
        \A i, j \in 1..Len(s) : i # j => s[i][1] # s[j][1]}

invalid_switches(switch_states) ==
    SelectSeq(switch_states, LAMBDA item : item[1] \notin ValidNames)

\* lines 268-277: the command numbers of the entries that differ from the cache
RECURSIVE commands(_, _)
commands(switch_states, status) ==
    IF switch_states = <<>> THEN <<>>
    ELSE LET item == Head(switch_states)
             rest == commands(Tail(switch_states), status)
         IN  IF status[current_index(item[1])] = item[2]
             THEN rest
             ELSE <<switch_map[item[1]]>> \o rest

\* lines 286-290: some requested switch is not in the requested state
mismatch(switch_states, status) ==
    \E i \in 1..Len(switch_states) :
        status[current_index(switch_states[i][1])] # switch_states[i][2]

Min(a, b) == IF a < b THEN a ELSE b

----------------------------------------------------------------------------
(* Events *)

NoEvent == <<"none">>
StatusUpdate(status) == <<"status_update", get_status_dict(status)>>
DeviceReconnected(status) == <<"device_reconnected", get_status_dict(status)>>
ErrorEvent == <<"error", "not connected">>

(* Results of a call: the returned dict, or the DeviceError raised *)

NoResult == <<"none">>
Ok(status) == <<"ok", get_status_dict(status)>>
Err(device_error) == <<device_error>>

----------------------------------------------------------------------------
(* State after DeviceStateManager.__init__ (lines 72-101): connect_to_device, *)
(* then one update_status(notify_clients=False) if the open succeeded.        *)

InitCommon ==
    /\ stop_event = FALSE
    /\ lock = None
    /\ pc = [t \in Threads |-> IF t = Poll THEN "p_top" ELSE "idle"]
    /\ call = [t \in Threads |-> None]
    /\ req = [t \in Threads |-> <<>>]
    /\ result = [t \in Threads |-> NoResult]
    /\ wrote = [t \in Threads |-> <<>>]
    /\ link_io = [t \in Threads |-> "none"]
    /\ retry_interval = min_retry_interval
    /\ new_connection = None
    /\ main_pc = "run"
    /\ out = NoEvent
    /\ n_failed = 0
    /\ last_wait = 0
    /\ elapsed_read = NoTime

\* serial.Serial() raised: lines 123-130
InitOpenFailed ==
    /\ device_connected = FALSE
    /\ ser = None
    /\ open_handles = {}
    /\ last_opened = None
    /\ current_status = <<0, 0, 0, 0>>
    /\ last_decoded = <<0, 0, 0, 0>>
    /\ failure_count = 0
    /\ last_failure_time = None
    /\ consecutive_failures = 0

\* serial.Serial() succeeded; the initial refresh decoded a response, or
\* failed without a recorded failure (a response that is no integer), or
\* failed with one (no response, or a SerialException)
InitOpened ==
    /\ device_connected = TRUE
    /\ ser = "h1"
    /\ open_handles = {"h1"}
    /\ last_opened = "h1"
    /\ \/ /\ current_status \in AllStatus
          /\ failure_count = 0
          /\ last_failure_time = None
       \/ /\ current_status = <<0, 0, 0, 0>>
          /\ failure_count = 1
          /\ last_failure_time = Stamp
    /\ consecutive_failures = failure_count
    /\ last_decoded = current_status

Init == InitCommon /\ (InitOpenFailed \/ InitOpened)

----------------------------------------------------------------------------
(* safe_serial_operation: the wrapper around update_status and             *)
(* set_switch_state.  An exception is <<class, DeviceError>>.               *)

SerialTimeoutException == <<"SerialTimeoutException", "">>
SerialException == <<"SerialException", "">>
DeviceException(device_error) == <<"DeviceException", device_error>>

\* lines 195-207: the DeviceError the wrapper raises for an exception of func
wrapper_error(exc) ==
    CASE exc[1] = "SerialTimeoutException" -> "TIMEOUT"
      [] exc[1] = "SerialException" -> "CONNECTION_ERROR"
      [] OTHER -> "INTERNAL_ERROR"

\* lines 196-197, 201-202: whether the wrapper records a failure for it
wrapper_counts(exc) ==
    IF exc[1] \in {"SerialTimeoutException", "SerialException"} THEN 1 ELSE 0

\* a handler that marks the link down when it records a failure
wrapper_connected_DropsLink(exc, connected) ==
    IF wrapper_counts(exc) = 1 THEN FALSE ELSE connected

\* lines 195-207: no handler of the wrapper assigns self.device_connected
wrapper_connected(exc, connected) == connected

\* the flag set to what the test found
connected_after_check_Resync(open) == open

\* lines 213-214, 258-259: self.device_connected after the test of the handle
connected_after_check(open) == IF open THEN device_connected ELSE FALSE

\* a lock that excludes nobody
LockAvailable_NoExclusion(t) == TRUE

\* line 192, with self.lock: threading.Lock is not reentrant
LockAvailable(t) == lock = None

\* the environment may fail a transaction only while the counter is below the cap
MayFail == failure_count < MaxFailureCount

\* lines 196-197, 201-202, 222-223
RecordFailures(n) ==
    IF n > 0
    THEN /\ failure_count' = failure_count + n
         /\ last_failure_time' = Stamp
         /\ consecutive_failures' = Min(consecutive_failures + n, max_failure_threshold)
    ELSE UNCHANGED <<failure_count, last_failure_time, consecutive_failures>>

\* the call of thread t ends with res.  The poll loop drops a returned dict
\* (line 182), binds a raised DeviceException (line 183) and goes on to its
\* wait; an API caller holds the result for its response.
Finish(t, res) ==
    /\ pc' = [pc EXCEPT ![t] = IF t = Poll THEN "p_wait" ELSE "done"]
    /\ result' = [result EXCEPT ![t] =
                     IF t = Poll /\ res[1] = "ok" THEN NoResult ELSE res]

\* line 182, 314, 283: the notify_clients argument of the update_status running in t
notify_clients(t) == t = Poll \/ call[t] = "set_switch_state"

\* update_status of thread t has returned or raised res, leaving the cache at
\* status.  Called from set_switch_state (line 283) the outer method goes on
\* with lines 286-295 under its own wrapper; otherwise the call is over.
AfterUpdateStatus(t, res, status) ==
    /\ lock' = None
    /\ IF call[t] = "set_switch_state"
       THEN IF res[1] # "ok" \/ mismatch(req[t], status)
            THEN Finish(t, Err(wrapper_error(DeviceException("INTERNAL_ERROR"))))
            ELSE Finish(t, Ok(status))
       ELSE Finish(t, res)

\* func raised exc after recording body_count failures itself
Raise(t, exc, body_count, status) ==
    /\ RecordFailures(body_count + wrapper_counts(exc))
    /\ AfterUpdateStatus(t, Err(wrapper_error(exc)), status)

----------------------------------------------------------------------------
(* The decorated methods, run by the poll thread and by API callers        *)

\* line 192: with self.lock
AcquireLock(t) ==
    /\ pc[t] \in {"u_lock", "s_lock", "r_lock"}
    /\ LockAvailable(t)
    /\ lock' = t
    /\ pc' = [pc EXCEPT ![t] = CASE pc[t] = "u_lock" -> "u_body"
                                  [] pc[t] = "s_lock" -> "s_body"
                                  [] pc[t] = "r_lock" -> "r_assign"]
    /\ out' = NoEvent
    /\ UNCHANGED <<elapsed_read, link_io, current_status, device_connected, ser, open_handles, stop_event,
                   failure_count, last_failure_time, consecutive_failures, call, req, result, wrote,
                   retry_interval, new_connection, main_pc, last_decoded,
                   last_opened, n_failed, last_wait>>

\* what ser.write can do: return, or raise
WriteOutcomes ==
    {"ok"} \cup (IF MayFail THEN {"SerialTimeoutException", "SerialException"} ELSE {})

\* lines 213-217: the connection check and the write of the query
UpdateStatusWrite(t) ==
    /\ pc[t] = "u_body"
    /\ out' = NoEvent
    /\ IF ser = None \/ ser \notin open_handles
       THEN /\ device_connected' = wrapper_connected(DeviceException("CONNECTION_ERROR"),
                                                      connected_after_check(FALSE))
            /\ link_io' = [link_io EXCEPT ![t] = "not_open"]
            /\ Raise(t, DeviceException("CONNECTION_ERROR"), 0, current_status)
            /\ UNCHANGED wrote
       ELSE \E o \in WriteOutcomes :
              IF o = "ok"
              THEN /\ wrote' = [wrote EXCEPT ![t] = Append(@, 6)]
                   /\ link_io' = [link_io EXCEPT ![t] = "written"]
                   /\ pc' = [pc EXCEPT ![t] = "u_read"]
                   /\ device_connected' = connected_after_check(TRUE)
                   /\ UNCHANGED <<lock, result, failure_count,
                                  last_failure_time, consecutive_failures>>
              ELSE /\ link_io' = [link_io EXCEPT ![t] = o]
                   /\ Raise(t, <<o, "">>, 0, current_status)
                   /\ device_connected' = wrapper_connected(<<o, "">>,
                                                            connected_after_check(TRUE))
                   /\ UNCHANGED wrote
    /\ UNCHANGED <<elapsed_read, current_status, ser, open_handles, stop_event, call, req,
                   retry_interval, new_connection, main_pc, last_decoded,
                   last_opened, n_failed, last_wait>>

\* what ser.readline().strip() can do, as <<kind, value>>: an integer in ASCII,
\* nothing (read timeout), bytes that are no integer, or raise; on a handle
\* closed by another thread it raises
ReadOutcomes ==
    IF ser \in open_handles
    THEN {<<"int", n>> : n \in 0..MaxResponse} \cup {<<"garbage", 0>>}
            \cup (IF MayFail THEN {<<"empty", 0>>, <<"SerialException", 0>>} ELSE {})
    ELSE {<<"SerialException", 0>>}

\* the cache assignment moved under "if notify_clients"
apply_status_OnlyWhenNotifying(t, new_status) ==
    IF new_status # current_status /\ notify_clients(t)
    THEN new_status ELSE current_status

\* lines 242-243: the cache after a decoded response
apply_status(t, new_status) ==
    IF new_status # current_status THEN new_status ELSE current_status

\* line 244: the status_update event is sent
ShouldNotify(t, changed) == changed /\ notify_clients(t)

\* lines 218-249: read, decode, update the cache, notify
UpdateStatusRead(t) ==
    /\ pc[t] = "u_read"
    /\ \E r \in ReadOutcomes :
       /\ link_io' = [link_io EXCEPT ![t] = r[1]]
       /\ CASE r[1] = "SerialException" ->
                /\ Raise(t, SerialException, 0, current_status)
                /\ device_connected' = wrapper_connected(SerialException, device_connected)
                /\ out' = NoEvent
                /\ UNCHANGED <<current_status, last_decoded>>
           [] r[1] = "empty" ->
                /\ Raise(t, DeviceException("TIMEOUT"), 1, current_status)
                /\ device_connected' =
                      wrapper_connected(DeviceException("TIMEOUT"), device_connected)
                /\ out' = NoEvent
                /\ UNCHANGED <<current_status, last_decoded>>
           [] r[1] = "garbage" ->
                /\ Raise(t, DeviceException("INTERNAL_ERROR"), 0, current_status)
                /\ device_connected' =
                      wrapper_connected(DeviceException("INTERNAL_ERROR"), device_connected)
                /\ out' = NoEvent
                /\ UNCHANGED <<current_status, last_decoded>>
           [] OTHER ->
                LET new_status == decode_status(r[2])
                    changed == new_status # current_status
                    status == apply_status(t, new_status)
                IN  /\ current_status' = status
                    /\ last_decoded' = new_status
                    /\ out' = IF ShouldNotify(t, changed)
                              THEN StatusUpdate(status) ELSE NoEvent
                    /\ AfterUpdateStatus(t, Ok(status), status)
                    /\ consecutive_failures' = 0
                    /\ UNCHANGED <<device_connected, failure_count, last_failure_time>>
    /\ UNCHANGED <<elapsed_read, ser, open_handles, stop_event,
                   call, req, wrote, retry_interval, new_connection, main_pc,
                   last_opened, n_failed, last_wait>>

\* lines 258-280: connection check, switch-name check, the toggle commands.
\* The switch_states argument is first read here, so the model draws it here.
SetSwitchBody(t) ==
    /\ pc[t] = "s_body"
    /\ out' = NoEvent
    /\ \E switch_states \in Requests :
         /\ req' = [req EXCEPT ![t] = switch_states]
         /\ IF ser = None \/ ser \notin open_handles
            THEN /\ device_connected' = wrapper_connected(DeviceException("CONNECTION_ERROR"),
                                                           connected_after_check(FALSE))
                 /\ link_io' = [link_io EXCEPT ![t] = "not_open"]
                 /\ lock' = None
                 /\ Finish(t, Err(wrapper_error(DeviceException("CONNECTION_ERROR"))))
                 /\ UNCHANGED <<wrote, failure_count, last_failure_time, consecutive_failures>>
            ELSE IF invalid_switches(switch_states) # <<>>
            THEN /\ lock' = None
                 /\ Finish(t, Err(wrapper_error(DeviceException("INVALID_OPERATION"))))
                 /\ device_connected' = wrapper_connected(DeviceException("INVALID_OPERATION"),
                                                           connected_after_check(TRUE))
                 /\ UNCHANGED <<wrote, link_io, failure_count,
                                last_failure_time, consecutive_failures>>
            ELSE LET cmds == commands(switch_states, current_status)
                 IN  \E o \in (IF cmds # <<>> THEN WriteOutcomes ELSE {"ok"}) :
                       IF o = "ok"
                       THEN /\ wrote' = [wrote EXCEPT ![t] = @ \o cmds]
                            /\ link_io' = [link_io EXCEPT ![t] =
                                             IF cmds # <<>> THEN "written" ELSE @]
                            /\ pc' = [pc EXCEPT ![t] = "u_lock"]
                            /\ device_connected' = connected_after_check(TRUE)
                            /\ UNCHANGED <<lock, result,
                                           failure_count, last_failure_time, consecutive_failures>>
                       ELSE /\ link_io' = [link_io EXCEPT ![t] = o]
                            /\ lock' = None
                            /\ RecordFailures(wrapper_counts(<<o, "">>))
                            /\ Finish(t, Err(wrapper_error(<<o, "">>)))
                            /\ device_connected' = wrapper_connected(<<o, "">>,
                                                           connected_after_check(TRUE))
                            /\ UNCHANGED wrote
    /\ UNCHANGED <<elapsed_read, current_status, ser, open_handles, stop_event, call,
                   retry_interval, new_connection, main_pc, last_decoded,
                   last_opened, n_failed, last_wait>>

----------------------------------------------------------------------------
(* API callers.  Requests arrive while socketio.run (line 359) is serving; *)
(* stop_monitoring runs after it has returned.                             *)

\* get_status, lines 308-314: past the device_connected test of the route,
\* device_manager.update_status(notify_clients=False)
CallUpdateStatus(t) ==
    /\ t \in Api
    /\ pc[t] = "idle"
    /\ main_pc = "run"
    /\ device_connected
    /\ pc' = [pc EXCEPT ![t] = "u_lock"]
    /\ call' = [call EXCEPT ![t] = "update_status"]
    /\ wrote' = [wrote EXCEPT ![t] = <<>>]
    /\ link_io' = [link_io EXCEPT ![t] = "none"]
    /\ out' = NoEvent
    /\ UNCHANGED <<elapsed_read, current_status, device_connected, ser, open_handles, stop_event,
                   lock, failure_count, last_failure_time, consecutive_failures, req, result,
                   retry_interval, new_connection, main_pc, last_decoded,
                   last_opened, n_failed, last_wait>>

\* set_switch, lines 326-342: past the device_connected test of the route,
\* device_manager.set_switch_state(switch_states)
CallSetSwitchState(t) ==
    /\ t \in Api
    /\ pc[t] = "idle"
    /\ main_pc = "run"
    /\ device_connected
    /\ pc' = [pc EXCEPT ![t] = "s_lock"]
    /\ call' = [call EXCEPT ![t] = "set_switch_state"]
    /\ wrote' = [wrote EXCEPT ![t] = <<>>]
    /\ link_io' = [link_io EXCEPT ![t] = "none"]
    /\ out' = NoEvent
    /\ UNCHANGED <<elapsed_read, current_status, device_connected, ser, open_handles, stop_event,
                   lock, failure_count, last_failure_time, consecutive_failures, req, result,
                   retry_interval, new_connection, main_pc, last_decoded,
                   last_opened, n_failed, last_wait>>

\* lines 316/321, 344/346: the route answers the client
Respond(t) ==
    /\ t \in Api
    /\ pc[t] = "done"
    /\ pc' = [pc EXCEPT ![t] = "idle"]
    /\ call' = [call EXCEPT ![t] = None]
    /\ req' = [req EXCEPT ![t] = <<>>]
    /\ result' = [result EXCEPT ![t] = NoResult]
    /\ wrote' = [wrote EXCEPT ![t] = <<>>]
    /\ link_io' = [link_io EXCEPT ![t] = "none"]
    /\ out' = NoEvent
    /\ UNCHANGED <<elapsed_read, current_status, device_connected, ser, open_handles, stop_event,
                   lock, failure_count, last_failure_time, consecutive_failures,
                   retry_interval, new_connection, main_pc, last_decoded,
                   last_opened, n_failed, last_wait>>

----------------------------------------------------------------------------
(* The polling thread: monitor_device_status *)

\* line 173: while not self.stop_event.is_set()
PollLoopTest ==
    /\ pc[Poll] = "p_top"
    /\ pc' = [pc EXCEPT ![Poll] = IF stop_event THEN "p_exit" ELSE "p_reset"]
    /\ out' = NoEvent
    /\ UNCHANGED <<elapsed_read, link_io, current_status, device_connected, ser, open_handles, stop_event,
                   lock, failure_count, last_failure_time, consecutive_failures, call, req, result, wrote,
                   retry_interval, new_connection, main_pc, last_decoded,
                   last_opened, n_failed, last_wait>>

\* the comparison made inclusive
ResetDue_AtTheInterval(elapsed) == elapsed >= failure_reset_interval

\* line 142: time.time() - self.last_failure_time > self.failure_reset_interval
ResetDue(elapsed) == elapsed > failure_reset_interval

\* the comparison made strict
ThresholdReached_Exceeded == failure_count > max_failure_threshold

\* line 147
ThresholdReached == failure_count >= max_failure_threshold

\* the values time.time() - self.last_failure_time can have when line 142 reads it
ElapsedValues == {0, failure_reset_interval, failure_reset_interval + MaxOverrun}

\* failure_count_check, lines 142-145
FailureCountReset ==
    /\ pc[Poll] = "p_reset"
    /\ pc' = [pc EXCEPT ![Poll] = "p_threshold"]
    /\ IF last_failure_time = None
       THEN UNCHANGED <<failure_count, last_failure_time, elapsed_read>>
       ELSE \E elapsed \in ElapsedValues :
              /\ elapsed_read' = elapsed
              /\ IF ResetDue(elapsed)
                 THEN failure_count' = 0 /\ last_failure_time' = None
                 ELSE UNCHANGED <<failure_count, last_failure_time>>
    /\ out' = NoEvent
    /\ UNCHANGED <<consecutive_failures, current_status, device_connected, ser, open_handles, stop_event,
                   lock, call, req, result, wrote, link_io,
                   retry_interval, new_connection, main_pc, last_decoded,
                   last_opened, n_failed, last_wait>>

\* failure_count_check, lines 147-151
FailureCountThreshold ==
    /\ pc[Poll] = "p_threshold"
    /\ pc' = [pc EXCEPT ![Poll] = "p_branch"]
    /\ IF ThresholdReached
       THEN /\ device_connected' = FALSE
            /\ failure_count' = 0
            /\ last_failure_time' = None
       ELSE UNCHANGED <<device_connected, failure_count, last_failure_time>>
    /\ elapsed_read' = NoTime
    /\ out' = NoEvent
    /\ UNCHANGED <<consecutive_failures, current_status, ser, open_handles, stop_event,
                   lock, call, req, result, wrote, link_io,
                   retry_interval, new_connection, main_pc, last_decoded,
                   last_opened, n_failed, last_wait>>

\* lines 176-182: reconnect (emitting the error event, then line 155), or refresh
PollBranch ==
    /\ pc[Poll] = "p_branch"
    /\ IF ~device_connected
       THEN /\ out' = ErrorEvent
            /\ retry_interval' = min_retry_interval
            /\ n_failed' = 0
            /\ last_wait' = 0
            /\ pc' = [pc EXCEPT ![Poll] = "r_test"]
            /\ UNCHANGED <<call, wrote>>
       ELSE /\ out' = NoEvent
            /\ call' = [call EXCEPT ![Poll] = "update_status"]
            /\ wrote' = [wrote EXCEPT ![Poll] = <<>>]
            /\ pc' = [pc EXCEPT ![Poll] = "u_lock"]
            /\ UNCHANGED <<retry_interval, n_failed, last_wait>>
    /\ UNCHANGED <<elapsed_read, link_io, current_status, device_connected, ser,
                   open_handles, stop_event, lock, failure_count, last_failure_time, consecutive_failures,
                   req, result, new_connection, main_pc, last_decoded, last_opened>>

\* attempt_reconnection returns: its locals are gone
ReturnFromReconnection ==
    /\ retry_interval' = min_retry_interval
    /\ new_connection' = None
    /\ n_failed' = 0
    /\ last_wait' = 0

\* line 157: while not self.device_connected and not self.stop_event.is_set()
ReconnectTest ==
    /\ pc[Poll] = "r_test"
    /\ IF ~device_connected /\ ~stop_event
       THEN /\ pc' = [pc EXCEPT ![Poll] = "r_connect"]
            /\ UNCHANGED <<retry_interval, new_connection, n_failed, last_wait>>
       ELSE /\ pc' = [pc EXCEPT ![Poll] = "p_wait"]
            /\ ReturnFromReconnection
    /\ out' = NoEvent
    /\ UNCHANGED <<elapsed_read, link_io, current_status, device_connected, ser, open_handles,
                   stop_event, lock, failure_count, last_failure_time, consecutive_failures, call, req,
                   result, wrote, main_pc, last_decoded, last_opened>>

\* the handle object a successful serial.Serial() creates
FreshHandle == IF ser = "h1" THEN "h2" ELSE "h1"

\* line 158: connect_to_device, lines 103-130: close the old handle if open,
\* then open; the open succeeds or raises
ConnectToDevice ==
    /\ pc[Poll] = "r_connect"
    /\ \/ /\ device_connected' = TRUE
          /\ new_connection' = FreshHandle
          /\ open_handles' = (open_handles \ {ser}) \cup {FreshHandle}
          /\ last_opened' = FreshHandle
          /\ pc' = [pc EXCEPT ![Poll] = "r_lock"]
       \/ /\ n_failed < MaxRetries
          /\ device_connected' = FALSE
          /\ new_connection' = None
          /\ open_handles' = open_handles \ {ser}
          /\ pc' = [pc EXCEPT ![Poll] = "r_wait"]
          /\ UNCHANGED last_opened
    /\ out' = NoEvent
    /\ UNCHANGED <<elapsed_read, link_io, current_status, ser, stop_event,
                   lock, failure_count, last_failure_time, consecutive_failures, call, req, result, wrote,
                   retry_interval, main_pc, last_decoded, n_failed, last_wait>>

\* lines 160-161: self.ser = new_connection, and the lock is released
ReconnectAssign ==
    /\ pc[Poll] = "r_assign"
    /\ ser' = new_connection
    /\ lock' = None
    /\ pc' = [pc EXCEPT ![Poll] = "r_emit"]
    /\ out' = NoEvent
    /\ UNCHANGED <<elapsed_read, link_io, current_status, device_connected, open_handles, stop_event,
                   failure_count, last_failure_time, consecutive_failures, call, req, result, wrote,
                   retry_interval, new_connection, main_pc, last_decoded,
                   last_opened, n_failed, last_wait>>

\* lines 162-164: the device_reconnected event, and return
ReconnectEmit ==
    /\ pc[Poll] = "r_emit"
    /\ out' = DeviceReconnected(current_status)
    /\ pc' = [pc EXCEPT ![Poll] = "p_wait"]
    /\ ReturnFromReconnection
    /\ UNCHANGED <<elapsed_read, link_io, current_status, device_connected, ser, open_handles,
                   stop_event, lock, failure_count, last_failure_time, consecutive_failures, call, req,
                   result, wrote, main_pc, last_decoded, last_opened>>

\* the doubling without its cap
next_retry_interval_NoCap(interval) == interval * 2

\* line 168
next_retry_interval(interval) == Min(interval * 2, max_retry_interval)

\* lines 166-168: wait retry_interval (or until stop_event is set), then double it
ReconnectWait ==
    /\ pc[Poll] = "r_wait"
    /\ last_wait' = retry_interval
    /\ n_failed' = n_failed + 1
    /\ retry_interval' = next_retry_interval(retry_interval)
    /\ pc' = [pc EXCEPT ![Poll] = "r_test"]
    /\ out' = NoEvent
    /\ UNCHANGED <<elapsed_read, link_io, current_status, device_connected, ser, open_handles, stop_event,
                   lock, failure_count, last_failure_time, consecutive_failures, call, req, result, wrote,
                   new_connection, main_pc, last_decoded, last_opened>>

\* line 187: self.stop_event.wait(self.poll_interval)
PollWait ==
    /\ pc[Poll] = "p_wait"
    /\ pc' = [pc EXCEPT ![Poll] = "p_top"]
    /\ call' = [call EXCEPT ![Poll] = None]
    /\ result' = [result EXCEPT ![Poll] = NoResult]
    /\ wrote' = [wrote EXCEPT ![Poll] = <<>>]
    /\ link_io' = [link_io EXCEPT ![Poll] = "none"]
    /\ out' = NoEvent
    /\ UNCHANGED <<elapsed_read, current_status, device_connected, ser, open_handles,
                   stop_event, lock, failure_count, last_failure_time, consecutive_failures, req, main_pc,
                   last_decoded, last_opened, retry_interval, new_connection,
                   n_failed, last_wait>>

----------------------------------------------------------------------------
(* The main thread: lines 360-363 *)

\* stop_monitoring, lines 132-139: set the stop flag, close the handle if open
stop_monitoring ==
    /\ main_pc = "run"
    /\ main_pc' = "joining"
    /\ stop_event' = TRUE
    /\ open_handles' = open_handles \ {ser}
    /\ out' = NoEvent
    /\ UNCHANGED <<elapsed_read, link_io, current_status, device_connected, ser,
                   lock, failure_count, last_failure_time, consecutive_failures, pc, call, req, result, wrote,
                   retry_interval, new_connection, last_decoded,
                   last_opened, n_failed, last_wait>>

\* line 363: polling_thread.join()
Join ==
    /\ main_pc = "joining"
    /\ pc[Poll] = "p_exit"
    /\ main_pc' = "joined"
    /\ out' = NoEvent
    /\ UNCHANGED <<elapsed_read, link_io, current_status, device_connected, ser, open_handles, stop_event,
                   lock, failure_count, last_failure_time, consecutive_failures, pc, call, req, result, wrote,
                   retry_interval, new_connection, last_decoded,
                   last_opened, n_failed, last_wait>>

----------------------------------------------------------------------------

PollStep ==
    \/ PollLoopTest
    \/ FailureCountReset
    \/ FailureCountThreshold
    \/ PollBranch
    \/ ReconnectTest
    \/ ConnectToDevice
    \/ ReconnectAssign
    \/ ReconnectEmit
    \/ ReconnectWait
    \/ PollWait

MethodStep(t) ==
    \/ AcquireLock(t)
    \/ UpdateStatusWrite(t)
    \/ UpdateStatusRead(t)
    \/ SetSwitchBody(t)

ApiStep(t) ==
    \/ CallUpdateStatus(t)
    \/ CallSetSwitchState(t)
    \/ Respond(t)

MainStep ==
    \/ stop_monitoring
    \/ Join

Next ==
    \/ PollStep
    \/ \E t \in Threads : MethodStep(t)
    \/ \E t \in Api : ApiStep(t)
    \/ MainStep

Spec == Init /\ [][Next]_vars

\* Every thread that can run is scheduled: the poll thread and an API caller
\* inside a call keep taking steps.  Nothing obliges a client to send a request
\* or the operator to interrupt the server.
FairSpec ==
    /\ Spec
    /\ WF_vars(PollStep \/ MethodStep(Poll))
    /\ \A t \in Api : WF_vars(MethodStep(t) \/ Respond(t))

----------------------------------------------------------------------------
(* Properties *)

SetCall(t) == call[t] = "set_switch_state"
RefreshCall(t) == call[t] = "update_status"

\* the thread is between the write of the query and the end of its read
InFlight(t) == pc[t] = "u_read"

\* the command numbers of the requested switches that differ from the cache
DifferingCommands(switch_states, status) ==
    {switch_map[switch_states[i][1]] :
        i \in {j \in 1..Len(switch_states) :
                  status[current_index(switch_states[j][1])] # switch_states[j][2]}}

\* C1: a set_switch_state call with valid keys on an open link returns; in
\* particular it never waits for the link lock while holding that lock itself
\* (the verification refresh at line 283).
C1_SetSwitchNeverWaitsOnOwnLock ==
    \A t \in Api : ~(SetCall(t) /\ pc[t] = "u_lock" /\ lock = t)

\* C2: a set_switch_state call whose request has a key outside the switch table
\* ends with INVALID_OPERATION and has written nothing to the device.
C2_InvalidKeyIsInvalidOperation ==
    \A t \in Api :
        (pc[t] = "done" /\ SetCall(t) /\ invalid_switches(req[t]) # <<>>)
            => (result[t] = Err("INVALID_OPERATION") /\ wrote[t] = <<>>)

\* C3: a call that finds the link not open ends with CONNECTION_ERROR and has
\* written nothing to the device.
C3_LinkDownIsConnectionError ==
    \A t \in Api :
        (pc[t] = "done" /\ link_io[t] = "not_open")
            => (result[t] = Err("CONNECTION_ERROR") /\ wrote[t] = <<>>)

\* C4: a refresh that ends in a transport failure gives its caller TIMEOUT when
\* no response arrived (or the write timed out) and CONNECTION_ERROR when the
\* I/O failed, and the failure counter goes up by exactly one.
C4_TransportFailureReachesCaller ==
    [][\A t \in Api :
         (RefreshCall(t) /\ pc[t] \in {"u_body", "u_read"} /\ pc'[t] = "done"
            /\ link_io'[t] \in {"empty", "SerialTimeoutException", "SerialException"})
         => /\ result'[t] = IF link_io'[t] = "SerialException"
                            THEN Err("CONNECTION_ERROR") ELSE Err("TIMEOUT")
            /\ failure_count' = failure_count + 1]_vars

\* the counter half of C4 alone
C4_FailureCountedOnce ==
    [][\A t \in Api :
         (RefreshCall(t) /\ pc[t] \in {"u_body", "u_read"} /\ pc'[t] = "done"
            /\ link_io'[t] \in {"empty", "SerialTimeoutException", "SerialException"})
         => failure_count' = failure_count + 1]_vars

\* what C5 says of a finished set_switch_state call whose verification refresh
\* decoded a response: success with all four switches and every requested
\* switch at its requested value, or INTERNAL_ERROR
SetOutcomeVerified(t) ==
    /\ link_io[t] = "int"
    /\ result[t][1] \in {"ok", "INTERNAL_ERROR"}
    /\ result[t][1] = "ok" =>
          /\ DOMAIN result[t][2] = ValidNames
          /\ \A i \in 1..Len(req[t]) : result[t][2][req[t][i][1]] = req[t][i][2]

\* C5: a set_switch_state call with valid keys on an open link, once its
\* commands are out, gets through its verification refresh and ends, when the
\* refresh decodes a response, with the full snapshot (every requested switch
\* at its requested value) or with INTERNAL_ERROR.
C5_SetSwitchVerifiedOutcome ==
    \A t \in Api :
        (SetCall(t) /\ pc[t] = "u_lock")
            ~> (pc[t] = "done" /\ (link_io[t] = "int" => SetOutcomeVerified(t)))

\* the first half of C6: the toggle commands written are exactly those of the
\* requested switches that differ from the cache, each once
TogglesExactlyDiffering ==
    \A t \in Api :
        (SetCall(t) /\ pc[t] = "u_lock")
            => /\ {wrote[t][i] : i \in 1..Len(wrote[t])}
                    = DifferingCommands(req[t], current_status)
               /\ Len(wrote[t]) = Cardinality(DifferingCommands(req[t], current_status))

\* C6: set_switch_state writes a toggle command for exactly the requested
\* switches that differ from the cache, and a call that has nothing to toggle
\* writes no toggle and still returns the snapshot of its verification refresh.
C6_TogglesDifferingAndReturns ==
    /\ []TogglesExactlyDiffering
    /\ \A t \in Api :
          (SetCall(t) /\ pc[t] = "u_lock" /\ wrote[t] = <<>>)
              ~> (pc[t] = "done" /\ (link_io[t] = "int" => result[t][1] = "ok"))

\* C7: at most one thread is between the write of a command and the end of
\* the read of its response, and that thread holds the link lock.
C7_OneTransactionInFlight ==
    /\ \A t1, t2 \in Threads : (InFlight(t1) /\ InFlight(t2)) => t1 = t2
    /\ \A t \in Threads : InFlight(t) => lock = t

C7_Witness ==
    \E t1, t2 \in Threads :
        t1 # t2 /\ InFlight(t1) /\ pc[t2] \in {"u_lock", "s_lock"}

\* C8: the cached snapshot get_status_dict reads is the one decoded by the most
\* recent successful refresh; a failed refresh leaves it unchanged.
C8_CacheIsLastDecoded ==
    get_status_dict(current_status) = get_status_dict(last_decoded)

C8_Witness ==
    \E t \in Api :
        /\ pc[t] = "done" /\ RefreshCall(t)
        /\ link_io[t] \in {"empty", "garbage", "SerialException"}
        /\ current_status # <<0, 0, 0, 0>>

\* C9: every step that replaces the cached snapshot emits a status_update
\* event carrying the new snapshot, whichever thread ran the refresh.
C9_EveryCacheChangeAnnounced ==
    [][current_status' # current_status
         => out' = StatusUpdate(current_status')]_vars

\* the poll loop's share of C9: a refresh of the poll loop that replaces the
\* cached snapshot emits status_update with the new snapshot; the forced
\* refresh of get_status (notify_clients=False, line 314) emits nothing
PollRefreshAnnounced ==
    [][current_status' # current_status
         => out' = IF lock = Poll THEN StatusUpdate(current_status') ELSE NoEvent]_vars

\* the wait after the k-th failed open of an episode
ExpectedWait(k) == Min(min_retry_interval * (2 ^ (k - 1)), max_retry_interval)

\* C10: with min_retry_interval = 10 and max_retry_interval = 60 the waits after
\* successive failed opens are 10, 20, 40, 60, 60, ...; every reconnection
\* episode, also one after a successful reconnection, starts again at 10.
C10_BackoffSequence ==
    /\ n_failed > 0 => last_wait = ExpectedWait(n_failed)
    /\ n_failed \in 1..5 => last_wait = <<10, 20, 40, 60, 60>>[n_failed]
    /\ pc[Poll] \in {"r_test", "r_connect", "r_wait"}
          => retry_interval = ExpectedWait(n_failed + 1)

\* the capped wait, in an episode that follows a completed reconnection
C10_Witness ==
    /\ pc[Poll] = "r_test"
    /\ n_failed = 5
    /\ last_wait = 60
    /\ ser = "h2"

\* the poll loop's step of line 147, and its step of line 176
ThresholdStep == pc[Poll] = "p_threshold" /\ pc'[Poll] = "p_branch"
BranchStep == pc[Poll] = "p_branch" /\ pc'[Poll] # "p_branch"

\* C11: a failure counter that has reached max_failure_threshold stays there
\* until failure_count_check looks at it; the check then marks the link
\* disconnected and zeroes the counter and the timestamp, whatever the handle
\* reports, and the iteration goes on to the reconnection (error event, line 179).
C11_ForcedDisconnectAtThreshold ==
    [][/\ failure_count' < failure_count
            => /\ pc[Poll] \in {"p_reset", "p_threshold"}
               /\ pc'[Poll] # pc[Poll]
               /\ failure_count' = 0
       /\ (ThresholdStep /\ failure_count >= max_failure_threshold)
            => /\ ~device_connected'
               /\ failure_count' = 0
               /\ last_failure_time' = None
       /\ (~device_connected /\ device_connected') => pc[Poll] = "r_connect"
       /\ (BranchStep /\ ~device_connected)
            => /\ pc'[Poll] = "r_test"
               /\ out' = ErrorEvent]_vars

\* five failures in a row have forced the disconnect of a handle that is open
C11_Witness ==
    /\ pc[Poll] = "r_test"
    /\ out = ErrorEvent
    /\ ~device_connected
    /\ ser \in open_handles
    /\ failure_count = 0
    /\ consecutive_failures = max_failure_threshold

\* C12: when the forced disconnect fires, the last max_failure_threshold
\* transactions were failures with no decoded response between them.
C12_ForcedDisconnectNeedsConsecutive ==
    [][(ThresholdStep /\ ThresholdReached)
          => consecutive_failures >= max_failure_threshold]_vars

\* C13: the reset step of an iteration zeroes the counter and clears the
\* timestamp when more than failure_reset_interval has passed since the last
\* recorded failure, and otherwise leaves both as they are.
C13_ResetAfterInterval ==
    [][(pc[Poll] = "p_reset" /\ pc'[Poll] = "p_threshold")
          => IF last_failure_time # None /\ elapsed_read' > failure_reset_interval
             THEN failure_count' = 0 /\ last_failure_time' = None
             ELSE /\ failure_count' = failure_count
                  /\ last_failure_time' = last_failure_time]_vars

\* the reset has just fired on recorded failures
C13_Witness ==
    /\ pc[Poll] = "p_threshold"
    /\ elapsed_read > failure_reset_interval
    /\ failure_count = 0
    /\ last_failure_time = None
    /\ consecutive_failures > 1

\* the reset step has just left a counter alone at exactly the interval
C13_WitnessKept ==
    /\ pc[Poll] = "p_threshold"
    /\ elapsed_read = failure_reset_interval
    /\ failure_count > 1
    /\ last_failure_time = Stamp

\* the call of thread t is stuck for good: set_switch_state waits at line 283
\* for the lock it holds itself (C1)
SelfDeadlocked(t) == SetCall(t) /\ pc[t] = "u_lock" /\ lock = t

\* C14: once stop_monitoring has set the stop flag the poll loop observes it and
\* leaves monitor_device_status, wherever it was: in a wait, in a reconnection
\* attempt, or waiting for the link lock.
C14_ShutdownStopsPollLoop ==
    stop_event ~> (pc[Poll] = "p_exit")

\* what holds of the shutdown: the poll loop exits unless an API caller is
\* stuck in set_switch_state with the lock
ShutdownStopsUnlessDeadlocked ==
    stop_event ~> (pc[Poll] = "p_exit" \/ \E t \in Api : SelfDeadlocked(t))

\* thread t ends a transaction on an open handle with a transport failure: a
\* write or read that raised, or no response
TransportFailureStep(t) ==
    /\ pc[t] \in {"u_body", "u_read", "s_body"}
    /\ pc'[t] \in {"done", "p_wait"}
    /\ link_io'[t] \in {"empty", "SerialTimeoutException", "SerialException"}

\* thread t finds the handle absent or closed
NotOpenStep(t) ==
    /\ pc[t] \in {"u_body", "s_body"}
    /\ pc'[t] \in {"done", "p_wait"}
    /\ link_io'[t] = "not_open"

\* C15 as claimed: a transaction that fails with a transport failure while the
\* link is connected moves the connection state to disconnected.
C15_TransportFailureDisconnects ==
    [][\A t \in Threads :
          (TransportFailureStep(t) /\ device_connected) => ~device_connected']_vars

\* C15 as amended: a transaction that fails with a transport failure on an open
\* handle leaves the connection state as it was and adds one to the failure
\* counter; a transaction that finds the handle absent or closed sets the state
\* to disconnected.
C15_TransportFailureKeepsState ==
    [][\A t \in Threads :
          /\ TransportFailureStep(t)
                => /\ device_connected' = device_connected
                   /\ failure_count' = failure_count + 1
          /\ NotOpenStep(t) => ~device_connected']_vars

\* a call has ended with a transport failure and the link is still connected
C15_Witness ==
    \E t \in Api :
        /\ pc[t] = "done"
        /\ link_io[t] \in {"empty", "SerialTimeoutException", "SerialException"}
        /\ device_connected
        /\ failure_count > 0

\* C16: when device_reconnected is emitted the link is connected and self.ser
\* is the handle the reconnection has just opened, and that handle is open.
C16_ReconnectedMeansConnected ==
    out[1] = "device_reconnected"
        => /\ device_connected
           /\ ser = last_opened
           /\ ser \in open_handles

\* C17: the poll loop emits an error event when it has forced a disconnect and
\* when its refresh has ended with an error.
C17_PollErrorsAnnounced ==
    [][/\ (BranchStep /\ ~device_connected) => out' = ErrorEvent
       /\ (pc[Poll] \in {"u_body", "u_read"} /\ pc'[Poll] = "p_wait"
              /\ result'[Poll] # NoResult)
            => out'[1] = "error"]_vars

\* a step of failure_count_check or of connect_to_device in the poll loop
ReconnectionMachineStep ==
    pc[Poll] \in {"p_threshold", "r_connect"} /\ pc'[Poll] # pc[Poll]

\* C18 as claimed: only the poll loop's forced-disconnect check and its
\* reconnection attempts change device_connected.
C18_OnlyPollLoopChangesState ==
    [][device_connected' # device_connected => ReconnectionMachineStep]_vars

\* C18 as amended: device_connected is changed only by the forced-disconnect
\* check, by a reconnection attempt, and by an update_status or
\* set_switch_state call that finds the handle absent or closed, which sets it
\* to False; a call that finds the handle open leaves it unchanged.
C18_StateChangedByMachineOrClosedHandle ==
    [][device_connected' # device_connected
          => \/ ReconnectionMachineStep
             \/ \E t \in Threads : NotOpenStep(t) /\ ~device_connected']_vars

\* an API call has found the handle closed and marked the link disconnected
C18_Witness ==
    \E t \in Api :
        /\ pc[t] = "done"
        /\ link_io[t] = "not_open"
        /\ ~device_connected

\* the step closes the handle in self.ser, or puts another one there
HandleClosedOrReplaced ==
    \/ ser \in open_handles /\ ser \notin open_handles'
    \/ ser' # ser

\* C19: no step closes or replaces the handle while a thread holds the lock
\* with a transaction in flight on it.
C19_NoCloseDuringTransaction ==
    [][HandleClosedOrReplaced
          => \A t \in Threads : ~(InFlight(t) /\ lock = t)]_vars

\* C20: whenever device_connected is true, self.ser is present and is the
\* handle of the most recent successful open.
C20_ConnectedMeansCurrentHandle ==
    device_connected => (ser # None /\ ser = last_opened)

====
